---- MODULE Spec2Model ----
(***************************************************************************)
(* Model of FingeringPlanner (src/src/core/FingeringPlanner.ts): the       *)
(* rule-based dynamic-programming piano fingering planner.                 *)
(*                                                                         *)
(* Costs are JavaScript numbers.  The only non-integer factors are the     *)
(* difficulty multipliers 1.3, 1.1 and 0.9, so every cost is kept exactly  *)
(* as an integer number of tenths: a cost c of the source is the integer   *)
(* 10*c here, and the pruning threshold 300 is 3000 tenths.                *)
(* Infinity is a value larger than every cost a bounded input can reach;   *)
(* sums that may involve it go through Plus, which keeps it absorbing.     *)
(* An explanation string is reasons.join('; '); no reason label is empty   *)
(* or contains '; ', so the string is represented by the sequence of its   *)
(* labels and the empty string by the empty sequence.                      *)
(***************************************************************************)
EXTENDS Integers, Sequences, FiniteSets, TLC

VARIABLES
    difficultyLevel,  \* the planner's private field (line 17)
    lastSet,          \* history: argument of the latest setDifficultyLevel call
    piece,            \* the caller's inputs: a tuple of [notes, patterns] records
    solution,         \* per input: the FingeringSolution of the latest call on it
    analysis          \* per input: the latest analyzeHandPositions result on a hand of it

vars == <<difficultyLevel, lastSet, piece, solution, analysis>>

Levels == {"beginner", "intermediate", "advanced"}
Hands == {"RH", "LH"}
Fingers == <<1, 2, 3, 4, 5>>
PatternTypes == {"SCALE", "POLYPHONIC", "ORNAMENTED", "UNKNOWN"}

Tenths == 10
Infinity == 1000000000
PruneLimit == 300
MaxSingleDP == 64
chunkSize == 32
overlapSize == 4

Abs(x) == IF x < 0 THEN -x ELSE x
Min2(a, b) == IF a < b THEN a ELSE b
Max2(a, b) == IF a > b THEN a ELSE b
Sign(x) == IF x > 0 THEN 1 ELSE IF x < 0 THEN -1 ELSE 0

Note(p, h, m) == [pitch |-> p, hand |-> h, measureNumber |-> m]
Segment(s, e, t) == [startIndex |-> s, endIndex |-> e, patternType |-> t]

(***************************************************************************)
(* Lookup tables and small helpers                                         *)
(***************************************************************************)
naturalSpans(lo, hi) ==
    CASE lo = 1 /\ hi = 2 -> 2
      [] lo = 2 /\ hi = 3 -> 2
      [] lo = 3 /\ hi = 4 -> 1
      [] lo = 4 /\ hi = 5 -> 2
      [] lo = 1 /\ hi = 3 -> 4
      [] lo = 2 /\ hi = 4 -> 3
      [] lo = 3 /\ hi = 5 -> 3
      [] lo = 1 /\ hi = 4 -> 5
      [] lo = 2 /\ hi = 5 -> 5
      [] lo = 1 /\ hi = 5 -> 8
      [] OTHER -> 0

transitionWeights(from, to) ==
    CASE from = 1 /\ to = 2 -> 900  [] from = 2 /\ to = 1 -> 936
      [] from = 2 /\ to = 3 -> 405  [] from = 3 /\ to = 2 -> 528
      [] from = 3 /\ to = 4 -> 420  [] from = 4 /\ to = 3 -> 409
      [] from = 4 /\ to = 5 -> 590  [] from = 5 /\ to = 4 -> 561
      [] from = 1 /\ to = 3 -> 451  [] from = 3 /\ to = 1 -> 489
      [] from = 1 /\ to = 4 -> 301  [] from = 4 /\ to = 1 -> 286
      [] from = 1 /\ to = 5 -> 356  [] from = 5 /\ to = 1 -> 286
      [] from = 2 /\ to = 4 -> 150  [] from = 4 /\ to = 2 -> 149
      [] from = 2 /\ to = 5 -> 334  [] from = 5 /\ to = 2 -> 248
      [] from = 3 /\ to = 5 -> 271  [] from = 5 /\ to = 3 -> 448
      [] OTHER -> 0

getNaturalSpan(finger1, finger2) ==
    naturalSpans(Min2(finger1, finger2), Max2(finger1, finger2))

\* pitches of the model are non-negative, where JavaScript's % is the modulus
isBlackKey(pitch) == (pitch % 12) \in {1, 3, 6, 8, 10}

\* the five-finger ladder of computeInitialCost and computeTransitionCost
expectedFinger(hand, offset) ==
    IF hand = "RH"
    THEN IF offset <= 0 THEN 1
         ELSE IF offset <= 2 THEN 2
         ELSE IF offset <= 4 THEN 3
         ELSE IF offset <= 5 THEN 4
         ELSE 5
    ELSE IF offset >= 0 THEN 1
         ELSE IF offset >= -2 THEN 2
         ELSE IF offset >= -4 THEN 3
         ELSE IF offset >= -5 THEN 4
         ELSE 5

\* one "cost += d; reasons.push(label)"; label "" means nothing is pushed
Rule(d, label) == [cost |-> d, reasons |-> IF label = "" THEN <<>> ELSE <<label>>]

\* a rule that does not fire
NoCost == [cost |-> 0, reasons |-> <<>>]

RECURSIVE Accumulate(_, _)
\* cost and reasons after the first k rules, in source order
Accumulate(rules, k) ==
    IF k = 0 THEN NoCost
    ELSE LET acc == Accumulate(rules, k - 1)
         IN  [cost |-> acc.cost + rules[k].cost, reasons |-> acc.reasons \o rules[k].reasons]

DiffLabel(diff) ==
    CASE diff = 1 -> "1 fingers from expected"
      [] diff = 2 -> "2 fingers from expected"
      [] diff = 3 -> "3 fingers from expected"
      [] OTHER -> "4 fingers from expected"

\* { cost, reasons } with the cost in tenths
InTenths(total) == [cost |-> total.cost * Tenths, reasons |-> total.reasons]

(***************************************************************************)
(* Cost model                                                              *)
(***************************************************************************)
computeInitialCost(finger, note, hand, pos) ==
    LET expected == expectedFinger(hand, note.pitch - pos.anchorPitch)
        diff == Abs(finger - expected)
        match == IF finger = expected
                 THEN Rule(-30, "Matches hand position")
                 ELSE Rule(diff * 15, DiffLabel(diff))
        blackKey == IF isBlackKey(note.pitch)
                    THEN IF finger = 1 \/ finger = 5
                         THEN Rule(20, "Short finger on black key")
                         ELSE Rule(-5, "Long finger on black key")
                    ELSE NoCost
    IN  InTenths(Accumulate(<<match, blackKey>>, 2))

applyDifficultyAdjustment(cost, patternContext) ==
    CASE difficultyLevel = "beginner" ->
            IF patternContext = "POLYPHONIC" \/ patternContext = "ORNAMENTED"
            THEN cost * 13
            ELSE cost * 11
      [] difficultyLevel = "advanced" -> cost * 9
      [] OTHER -> cost * Tenths

computeScaleTransitionCost(prevFinger, currFinger, ascending, hand, interval) ==
    LET upTemplate == (hand = "RH" /\ ascending) \/ (hand = "LH" /\ ~ascending)
        downTemplate == (hand = "RH" /\ ~ascending) \/ (hand = "LH" /\ ascending)
        goodTransitions ==
            (IF upTemplate
             THEN {<<1, 2>>, <<2, 3>>, <<3, 1>>, <<3, 4>>, <<4, 5>>} ELSE {})
            \cup
            (IF downTemplate
             THEN {<<5, 4>>, <<4, 3>>, <<3, 2>>, <<2, 1>>, <<1, 3>>, <<1, 2>>} ELSE {})
        template == IF <<prevFinger, currFinger>> \in goodTransitions
                    THEN Rule(-30, "Standard scale fingering")
                    ELSE IF prevFinger = 3 /\ currFinger = 1
                    THEN Rule(-20, "Thumb under (3->1)")
                    ELSE IF prevFinger = 4 /\ currFinger = 1
                    THEN Rule(-15, "Thumb under (4->1)")
                    ELSE IF prevFinger = 1 /\ currFinger = 3
                    THEN Rule(-20, "Finger over (1->3)")
                    ELSE IF prevFinger = 1 /\ currFinger = 4
                    THEN Rule(-10, "Finger over (1->4)")
                    ELSE Rule(20, "Non-standard scale transition")
        sameFinger == IF currFinger = prevFinger
                      THEN Rule(40, "Same finger in scale") ELSE NoCost
        naturalSpan == getNaturalSpan(prevFinger, currFinger)
        span == IF interval > naturalSpan + 2
                THEN Rule((interval - naturalSpan) * 10, "Over-stretch in scale")
                ELSE NoCost
    IN  InTenths(Accumulate(<<template, sameFinger, span>>, 3))

\* lines 529-531: the adjusted cost with the reasons collected
Adjusted(total, patternContext) ==
    [cost |-> applyDifficultyAdjustment(total.cost, patternContext), reasons |-> total.reasons]

computeTransitionCost(prevNote, prevFinger, currNote, currFinger, patternContext, hand, pos) ==
    LET interval == currNote.pitch - prevNote.pitch
        absInterval == Abs(interval)
        ascending == interval > 0
    IN
    IF pos.isScale \/ patternContext = "SCALE"
    THEN computeScaleTransitionCost(prevFinger, currFinger, ascending, hand, absInterval)
    ELSE
    LET expected == expectedFinger(hand, currNote.pitch - pos.anchorPitch)
        position == IF pos.inPosition /\ currFinger = expected
                    THEN Rule(-40, "Correct finger for position")
                    ELSE IF pos.inPosition
                    THEN Rule(Abs(currFinger - expected) * 20, "Wrong finger for position")
                    ELSE NoCost
        fingerDiff == currFinger - prevFinger
        crossing == IF interval # 0 /\ fingerDiff # 0 /\ prevFinger # 1 /\ currFinger # 1
                    THEN Rule(50, "Unnatural finger crossing")
                    ELSE NoCost
        progression == IF hand = "RH"
                       THEN IF ascending /\ fingerDiff > 0
                            THEN Rule(-15, "Natural RH ascending")
                            ELSE IF ~ascending /\ interval < 0 /\ fingerDiff < 0
                            THEN Rule(-15, "Natural RH descending")
                            ELSE crossing
                       ELSE IF ascending /\ fingerDiff < 0
                            THEN Rule(-15, "Natural LH ascending")
                            ELSE IF ~ascending /\ interval < 0 /\ fingerDiff > 0
                            THEN Rule(-15, "Natural LH descending")
                            ELSE crossing
        \* RULE 3: span constraint
        overStretch == absInterval - getNaturalSpan(prevFinger, currFinger)
        span == IF overStretch > 4 THEN Rule(overStretch * 12, "Over-stretch")
                ELSE IF overStretch > 2 THEN Rule(overStretch * 6, "")
                ELSE NoCost
        \* RULE 4: same finger on different pitch
        sameFinger == IF currFinger = prevFinger /\ interval # 0
                      THEN Rule(absInterval * 8, "Same finger leap") ELSE NoCost
        \* RULE 5: repeated note
        repeated == IF interval = 0 /\ currFinger = prevFinger
                    THEN Rule(30, "Same finger on repeated note")
                    ELSE IF interval = 0 /\ currFinger # prevFinger
                    THEN Rule(-10, "Good finger change on repeat")
                    ELSE NoCost
        \* RULE 6: validated transition bonus
        transWeight == transitionWeights(prevFinger, currFinger)
        validated == IF transWeight > 500 THEN Rule(-10, "")
                     ELSE IF transWeight > 300 THEN Rule(-6, "")
                     ELSE IF transWeight > 100 THEN Rule(-3, "")
                     ELSE NoCost
        \* RULE 7: black key preference
        blackKey == IF isBlackKey(currNote.pitch)
                    THEN IF currFinger = 1 \/ currFinger = 5
                         THEN Rule(25, "Short finger on black key")
                         ELSE Rule(-5, "")
                    ELSE NoCost
        \* RULE 8 is guarded by patternContext = 'SCALE', which returned above
    IN  Adjusted(Accumulate(<<position, progression, span, sameFinger, repeated,
                              validated, blackKey>>, 7),
                 patternContext)

(***************************************************************************)
(* Position / scale analyzer                                               *)
(***************************************************************************)
\* the values of the loop of detectScalePattern (lines 213-225) at its i-th
\* iteration, i = 1 .. notes.length - 1 (0-based indices of the source)
ScaleInterval(notes, i) == notes[i + 1].pitch - notes[i].pitch
IsStep(notes, i) == Abs(ScaleInterval(notes, i)) \in {1, 2}

\* a loop that never assigns lastDirection
LastDirectionNeverSet(notes, i) == 0

\* lastDirection on entry to iteration i: it is assigned by stepwise iterations only
LastDirection(notes, i) ==
    LET earlier == {j \in 1..(i - 1) : IsStep(notes, j)}
    IN  IF earlier = {} THEN 0
        ELSE Sign(ScaleInterval(notes, CHOOSE j \in earlier : \A k \in earlier : k <= j))

\* the counters after the loop
ScaleScan(notes) ==
    LET steps == {i \in 1..(Len(notes) - 1) : IsStep(notes, i)}
    IN  [stepwiseCount |-> Cardinality(steps),
         sameDirection |-> Cardinality({i \in steps :
                              /\ Sign(ScaleInterval(notes, i)) = LastDirection(notes, i)
                              /\ Sign(ScaleInterval(notes, i)) # 0})]

\* Math.max / Math.min over the pitches of notes[from .. to] (1-based, non-empty)
MaxPitch(notes, from, to) ==
    LET ps == {notes[i].pitch : i \in from..to} IN CHOOSE p \in ps : \A q \in ps : q <= p
MinPitch(notes, from, to) ==
    LET ps == {notes[i].pitch : i \in from..to} IN CHOOSE p \in ps : \A q \in ps : p <= q

detectScalePattern(notes) ==
    IF Len(notes) < 8 THEN FALSE
    ELSE LET n == Len(notes)
             scan == ScaleScan(notes)
             range == MaxPitch(notes, 1, n) - MinPitch(notes, 1, n)
         IN  \* stepwiseCount / (n-1) > 0.8, sameDirection / (n-2) > 0.6, range > 7
             /\ 10 * scan.stepwiseCount > 8 * (n - 1)
             /\ 10 * scan.sameDirection > 6 * (n - 2)
             /\ range > 7

HandPos(anchor, inPos, scale) ==
    [anchorPitch |-> anchor, inPosition |-> inPos, isScale |-> scale]

\* the 0-based index at which the loop of lines 175-193 closes the segment that
\* starts at segmentStart: the first note that would stretch the running
\* [min, max] window past 7 semitones; notes.length if the segment stays open
SegmentEnd(notes, segmentStart) ==
    LET n == Len(notes)
        breaks == {i \in (segmentStart + 1)..(n - 1) :
                      MaxPitch(notes, segmentStart + 1, i + 1)
                      - MinPitch(notes, segmentStart + 1, i + 1) > 7}
    IN  IF breaks = {} THEN n ELSE CHOOSE i \in breaks : \A j \in breaks : i <= j

RECURSIVE PositionScan(_, _, _)
\* lines 171-198, one segment per step; positions holds the entries of the closed
\* segments, so segmentStart = Len(positions)
PositionScan(notes, hand, positions) ==
    LET segmentStart == Len(positions)
    IN  IF segmentStart >= Len(notes) THEN positions
        ELSE LET end == SegmentEnd(notes, segmentStart)
                 minPitch == MinPitch(notes, segmentStart + 1, end)
                 maxPitch == MaxPitch(notes, segmentStart + 1, end)
                 anchorPitch == IF hand = "RH" THEN minPitch ELSE maxPitch
             IN  PositionScan(notes, hand,
                    positions \o [j \in 1..(end - segmentStart) |->
                                     HandPos(anchorPitch, TRUE, FALSE)])

analyzeHandPositions(notes, hand) ==
    IF Len(notes) = 0 THEN <<>>
    ELSE IF detectScalePattern(notes)
    THEN [i \in 1..Len(notes) |-> HandPos(notes[1].pitch, FALSE, TRUE)]
    ELSE PositionScan(notes, hand, <<>>)

(***************************************************************************)
(* Pattern context                                                         *)
(***************************************************************************)
RECURSIVE FirstMatch(_, _, _)
\* first segment, in list order, whose bounds contain key; 0 if none
FirstMatch(patterns, j, key) ==
    IF j > Len(patterns) THEN 0
    ELSE IF key >= patterns[j].startIndex /\ key <= patterns[j].endIndex THEN j
    ELSE FirstMatch(patterns, j + 1, key)

\* index is the 0-based index into notes, as in the source
getPatternContext(notes, index, patterns) ==
    LET byMeasure == FirstMatch(patterns, 1, notes[index + 1].measureNumber)
        byIndex == FirstMatch(patterns, 1, index)
    IN  IF byMeasure # 0 THEN patterns[byMeasure].patternType
        ELSE IF byIndex # 0 THEN patterns[byIndex].patternType
        ELSE "UNKNOWN"

(***************************************************************************)
(* DP optimizer                                                            *)
(***************************************************************************)
\* a Map entry; an absent key is a cell with present = FALSE
Cell(c, p, r) == [present |-> TRUE, cost |-> c, parent |-> p, reasons |-> r]
Absent == [present |-> FALSE, cost |-> Infinity, parent |-> 0, reasons |-> <<>>]

NoEdge == [minCost |-> Infinity, bestParent |-> 0, bestReasons |-> <<>>]

\* a loop body that forgets to add the predecessor's cumulative cost
RelaxNoPrev(best, prevState, fromFinger, transitionCost) ==
    IF ~prevState.present THEN best
    ELSE IF transitionCost.cost > PruneLimit * Tenths THEN best
    ELSE IF transitionCost.cost < best.minCost
    THEN [minCost |-> transitionCost.cost, bestParent |-> fromFinger,
          bestReasons |-> transitionCost.reasons]
    ELSE best

\* the body of the fromFinger loop (lines 120-137): skip an absent predecessor,
\* prune an edge costing more than 300, keep the first cheapest total
Relax(best, prevState, fromFinger, transitionCost) ==
    IF ~prevState.present THEN best
    ELSE IF transitionCost.cost > PruneLimit * Tenths THEN best
    ELSE IF prevState.cost + transitionCost.cost < best.minCost
    THEN [minCost |-> prevState.cost + transitionCost.cost, bestParent |-> fromFinger,
          bestReasons |-> transitionCost.reasons]
    ELSE best

RECURSIVE BestEdge(_, _, _, _, _, _, _, _)
\* the fromFinger loop (lines 119-138) over Fingers[1 .. k]
BestEdge(notes, i, toFinger, patternContext, hand, pos, prevRow, k) ==
    IF k = 0 THEN NoEdge
    ELSE Relax(BestEdge(notes, i, toFinger, patternContext, hand, pos, prevRow, k - 1),
               prevRow[Fingers[k]], Fingers[k],
               computeTransitionCost(notes[i], Fingers[k], notes[i + 1], toFinger,
                                     patternContext, hand, pos))

\* lines 140-142: the cell is set only when some edge survived
CellOf(best) ==
    IF best.minCost < Infinity
    THEN Cell(best.minCost, best.bestParent, best.bestReasons)
    ELSE Absent

\* the cell dp[i].get(toFinger) after the forward pass of row i (0-based, i > 0)
ForwardCell(notes, i, toFinger, patternContext, hand, pos, prevRow) ==
    CellOf(BestEdge(notes, i, toFinger, patternContext, hand, pos, prevRow, 5))

\* lines 102-105: the cell of one finger of row 0
InitialCell(initCost) == Cell(initCost.cost, 0, initCost.reasons)

InitialRow(notes, hand, firstPos) ==
    LET c(f) == InitialCell(computeInitialCost(f, notes[1], hand, firstPos))
    IN  <<c(1), c(2), c(3), c(4), c(5)>>

\* row i from row i - 1, given the note's position and pattern context
RowOf(notes, i, patternContext, hand, pos, prevRow) ==
    <<ForwardCell(notes, i, 1, patternContext, hand, pos, prevRow),
      ForwardCell(notes, i, 2, patternContext, hand, pos, prevRow),
      ForwardCell(notes, i, 3, patternContext, hand, pos, prevRow),
      ForwardCell(notes, i, 4, patternContext, hand, pos, prevRow),
      ForwardCell(notes, i, 5, patternContext, hand, pos, prevRow)>>

ForwardRow(notes, i, patterns, hand, handPositions, prevRow) ==
    RowOf(notes, i, getPatternContext(notes, i, patterns), hand, handPositions[i + 1], prevRow)

RECURSIVE ForwardPass(_, _, _, _, _)
\* dp[0 .. n-1] as a sequence of rows; dp holds the rows built so far
ForwardPass(notes, patterns, hand, handPositions, dp) ==
    IF Len(dp) >= Len(notes) THEN dp
    ELSE ForwardPass(notes, patterns, hand, handPositions,
            Append(dp, ForwardRow(notes, Len(dp), patterns, hand, handPositions,
                                  dp[Len(dp)])))

RECURSIVE FinalScanDefault1(_, _)
\* a final scan whose default finger is the thumb
FinalScanDefault1(row, k) ==
    IF k = 0 THEN [minFinalCost |-> Infinity, bestFinalFinger |-> 1]
    ELSE LET best == FinalScanDefault1(row, k - 1)
         IN  IF row[k].present /\ row[k].cost < best.minFinalCost
             THEN [minFinalCost |-> row[k].cost, bestFinalFinger |-> k]
             ELSE best

RECURSIVE FinalScan(_, _)
\* lines 276-284: the cheapest cell of the last row, first seen wins
FinalScan(row, k) ==
    IF k = 0 THEN [minFinalCost |-> Infinity, bestFinalFinger |-> 3]
    ELSE LET best == FinalScan(row, k - 1)
         IN  IF row[k].present /\ row[k].cost < best.minFinalCost
             THEN [minFinalCost |-> row[k].cost, bestFinalFinger |-> k]
             ELSE best

RECURSIVE WalkParentIndex(_, _, _)
\* a walk that takes the note index of the parent key "index-finger" for the finger
WalkParentIndex(dp, currentFinger, out) ==
    LET i == Len(dp) - Len(out.fingering)
    IN  IF i = 0 THEN out
        ELSE LET state == IF currentFinger \in 1..5 THEN dp[i][currentFinger] ELSE Absent
                 expl == IF state.present THEN state.reasons ELSE <<>>
                 next == IF state.present /\ state.parent # 0
                         THEN i - 2 ELSE currentFinger
             IN  WalkParentIndex(dp, next,
                      [fingering |-> <<currentFinger>> \o out.fingering,
                       explanations |-> <<expl>> \o out.explanations])

RECURSIVE Walk(_, _, _)
\* lines 292-311: i runs from n - 1 down to 0; out holds the entries of the
\* indices above i, so i + 1 = Len(dp) - Len(out.fingering)
Walk(dp, currentFinger, out) ==
    LET i == Len(dp) - Len(out.fingering)
    IN  IF i = 0 THEN out
        ELSE LET state == dp[i][currentFinger]
                 expl == IF state.present THEN state.reasons ELSE <<>>
                 next == IF state.present /\ state.parent # 0
                         THEN state.parent ELSE currentFinger
             IN  Walk(dp, next,
                      [fingering |-> <<currentFinger>> \o out.fingering,
                       explanations |-> <<expl>> \o out.explanations])

backtrack(dp, notes, hand) ==
    LET n == Len(notes)
        final == FinalScan(dp[n], 5)
        trail == Walk(dp, final.bestFinalFinger,
                      [fingering |-> <<>>, explanations |-> <<>>])
    IN  [fingering |-> trail.fingering, totalCost |-> final.minFinalCost,
         explanations |-> trail.explanations]

dpTable(notes, patterns, hand) ==
    LET handPositions == analyzeHandPositions(notes, hand)
    IN  ForwardPass(notes, patterns, hand, handPositions,
                    <<InitialRow(notes, hand, handPositions[1])>>)

dpOptimization(notes, patterns, hand) ==
    backtrack(dpTable(notes, patterns, hand), notes, hand)

\* JavaScript's a + b on costs: Infinity plus a finite number is Infinity
Plus(a, b) == IF a >= Infinity \/ b >= Infinity THEN Infinity ELSE a + b

(***************************************************************************)
(* Chunked optimizer                                                       *)
(***************************************************************************)
\* notes.slice(from, to) with 0-based from (inclusive) and to (exclusive)
Slice(s, from, to) == SubSeq(s, from + 1, Min2(to, Len(s)))

RECURSIVE Chunks(_, _)
\* lines 243-246: the windows starting at i, i + 28, ...
Chunks(notes, i) ==
    IF i >= Len(notes) THEN <<>>
    ELSE <<Slice(notes, i, Min2(i + chunkSize, Len(notes)))>>
         \o Chunks(notes, i + (chunkSize - overlapSize))

RECURSIVE StitchKeepsOverlap(_, _, _)
\* a stitch that keeps every window whole
StitchKeepsOverlap(chunkSolutions, i, acc) ==
    IF i > Len(chunkSolutions) THEN acc
    ELSE LET sol == chunkSolutions[i]
         IN  StitchKeepsOverlap(chunkSolutions, i + 1,
                [fingering |-> acc.fingering \o sol.fingering,
                 explanations |-> acc.explanations \o sol.explanations,
                 totalCost |-> Plus(acc.totalCost, sol.totalCost)])

RECURSIVE Stitch(_, _, _)
\* lines 254-264 over chunkSolutions[i ..], i 1-based here
Stitch(chunkSolutions, i, acc) ==
    IF i > Len(chunkSolutions) THEN acc
    ELSE LET sol == chunkSolutions[i]
             keepFrom == IF i = 1 THEN 0 ELSE overlapSize
         IN  Stitch(chunkSolutions, i + 1,
                [fingering |-> acc.fingering
                               \o Slice(sol.fingering, keepFrom, Len(sol.fingering)),
                 explanations |-> acc.explanations
                               \o Slice(sol.explanations, keepFrom, Len(sol.explanations)),
                 totalCost |-> Plus(acc.totalCost, sol.totalCost)])

EmptySolution == [fingering |-> <<>>, totalCost |-> 0, explanations |-> <<>>]

chunkedOptimization(notes, patterns, hand) ==
    LET chunks == Chunks(notes, 0)
        chunkSolutions == [c \in 1..Len(chunks) |-> dpOptimization(chunks[c], patterns, hand)]
    IN  Stitch(chunkSolutions, 1, EmptySolution)

planHandFingering(notes, patterns, hand) ==
    IF Len(notes) = 0 THEN EmptySolution
    ELSE IF Len(notes) > MaxSingleDP THEN chunkedOptimization(notes, patterns, hand)
    ELSE dpOptimization(notes, patterns, hand)

(***************************************************************************)
(* Hand splitter and merger                                                *)
(***************************************************************************)
\* a splitter that hands every note to both hands
FilterNone(notes, hand) == notes

\* notes.filter(n => n.hand === hand)
Filter(notes, hand) == SelectSeq(notes, LAMBDA n : n.hand = hand)

\* fingering[idx] || 3 for a 0-based idx: undefined (past the end) and 0 are falsy
FingerOr3(fingering, idx) ==
    IF idx + 1 <= Len(fingering) /\ fingering[idx + 1] # 0 THEN fingering[idx + 1] ELSE 3

\* explanations[idx] || '' for a 0-based idx
ExplanationOrEmpty(explanations, idx) ==
    IF idx + 1 <= Len(explanations) THEN explanations[idx + 1] ELSE <<>>

\* a merger that returns the right hand's result as the whole result
MergeRHOnly(notes, rhSolution, lhSolution, rhIdx, out) ==
    [fingering |-> rhSolution.fingering, explanations |-> rhSolution.explanations]

RECURSIVE Merge(_, _, _, _, _)
\* lines 55-66: out holds the entries written so far, so i = Len(out.fingering)
\* is the 0-based position in notes, and lhIdx = i - rhIdx
Merge(notes, rhSolution, lhSolution, rhIdx, out) ==
    LET i == Len(out.fingering)
    IN  IF i >= Len(notes) THEN out
        ELSE IF notes[i + 1].hand = "RH"
        THEN Merge(notes, rhSolution, lhSolution, rhIdx + 1,
                [fingering |-> Append(out.fingering,
                                      FingerOr3(rhSolution.fingering, rhIdx)),
                 explanations |-> Append(out.explanations,
                                      ExplanationOrEmpty(rhSolution.explanations, rhIdx))])
        ELSE Merge(notes, rhSolution, lhSolution, rhIdx,
                [fingering |-> Append(out.fingering,
                                      FingerOr3(lhSolution.fingering, i - rhIdx)),
                 explanations |-> Append(out.explanations,
                                      ExplanationOrEmpty(lhSolution.explanations, i - rhIdx))])

\* lines 55-73: the merged fingering and explanations, and the summed cost
MergeSolutions(notes, rhSolution, lhSolution) ==
    LET merged == Merge(notes, rhSolution, lhSolution, 0,
                        [fingering |-> <<>>, explanations |-> <<>>])
    IN  [fingering |-> merged.fingering,
         totalCost |-> Plus(rhSolution.totalCost, lhSolution.totalCost),
         explanations |-> merged.explanations]

planFingering(notes, patterns) ==
    IF Len(notes) = 0 THEN EmptySolution
    ELSE MergeSolutions(notes,
                        planHandFingering(Filter(notes, "RH"), patterns, "RH"),
                        planHandFingering(Filter(notes, "LH"), patterns, "LH"))

(***************************************************************************)
(* Inputs: the pieces a caller may hand to the planner                     *)
(***************************************************************************)
MaxNotes == 3
MaxTail == 1

\* 61 and 90 are black keys; 61 -> 90 prunes some edges, a leap to 105 all of them
ShortPitches == {61, 90, 105}

RECURSIVE SeqsUpTo(_, _)
\* all sequences over S of length at most n
SeqsUpTo(S, n) ==
    IF n = 0 THEN {<<>>}
    ELSE LET shorter == SeqsUpTo(S, n - 1)
         IN  shorter \cup {Append(q, x) : q \in {r \in shorter : Len(r) = n - 1}, x \in S}

\* notes in performance order, two to a measure, starting at measure 11
ShortNotes ==
    {[i \in 1..Len(q) |-> Note(q[i][1], q[i][2], 11 + ((i - 1) \div 2))] :
        q \in SeqsUpTo(ShortPitches \X Hands, MaxNotes)}

\* the second list matches measure 12 by measure number and index 1 by index
ShortPatterns ==
    {<<>>,
     <<Segment(12, 12, "ORNAMENTED"), Segment(1, 1, "SCALE")>>}

ShortPieces == {[notes |-> ns, patterns |-> ps] : ns \in ShortNotes, ps \in ShortPatterns}

\* the ascending C major scale of the example scenario, right hand
CMajorNotes ==
    [i \in 1..10 |-> Note(<<60, 62, 64, 65, 67, 69, 71, 72, 74, 76>>[i], "RH", 1 + ((i - 1) \div 4))]

CMajorPiece == [notes |-> CMajorNotes, patterns |-> <<>>]

LongShapes == {"position", "scale", "mixed"}

\* pitch of the i-th (0-based) note of a long hand; from leapAt on, 50 higher
LongPitch(shape, leapAt, i) ==
    (CASE shape = "position" -> 60 + <<0, 2, 4, 5, 7, 5, 4, 2>>[(i % 8) + 1]
       [] shape = "scale" -> 20 + i
       [] OTHER -> 48 + ((i * 7) % 24))
    + (IF leapAt > 0 /\ i >= leapAt THEN 50 ELSE 0)

OtherHand(hand) == IF hand = "RH" THEN "LH" ELSE "RH"

\* n notes of one hand, four to a measure; every 26th note of the piece is a
\* note of the other hand
LongNotes(n, shape, leapAt, hand) ==
    LET total == CHOOSE t \in n..(n + 8) : t - (t \div 26) = n /\ t % 26 # 0
    IN  [j \in 1..total |->
            IF j % 26 = 0
            THEN Note(48, OtherHand(hand), 1 + (j \div 4))
            ELSE LET i == j - (j \div 26) - 1
                 IN  Note(LongPitch(shape, leapAt, i), hand, 1 + (i \div 4))]

LongLens == {MaxSingleDP, MaxSingleDP + 1} \cup {84 + d : d \in 0..MaxTail}
LongLeaps == {0, 10, 30}

\* the mixed shape is played by the left hand under a POLYPHONIC segment
LongPieces ==
    {[notes |-> LongNotes(n, shape, leapAt, IF shape = "mixed" THEN "LH" ELSE "RH"),
      patterns |-> IF shape = "mixed" THEN <<Segment(2, 3, "POLYPHONIC")>> ELSE <<>>] :
        n \in LongLens, shape \in LongShapes, leapAt \in LongLeaps}

(***************************************************************************)
(* State machine                                                           *)
(***************************************************************************)
\* level: the difficultyLevel field as the invocation read it; inForce: the
\* argument of the latest setDifficultyLevel call before the invocation
NotCalled ==
    [called |-> FALSE, fingering |-> <<>>, totalCost |-> 0, explanations |-> <<>>,
     level |-> "intermediate", inForce |-> "intermediate"]

NotAnalysed == [done |-> FALSE, hand |-> "RH", positions |-> <<>>]

Init ==
    /\ difficultyLevel = "intermediate"
    /\ lastSet = "intermediate"
    /\ piece \in {<<p>> : p \in ShortPieces \cup LongPieces \cup {CMajorPiece}}
    /\ solution = [k \in DOMAIN piece |-> NotCalled]
    /\ analysis = [k \in DOMAIN piece |-> NotAnalysed]

\* a setter that falls back to the default for 'advanced'
SetDifficultyLevelDropsAdvanced(level) ==
    /\ difficultyLevel' = IF level = "advanced" THEN "intermediate" ELSE level
    /\ lastSet' = level
    /\ UNCHANGED <<piece, solution, analysis>>

SetDifficultyLevel(level) ==
    /\ difficultyLevel' = level
    /\ lastSet' = level
    /\ UNCHANGED <<piece, solution, analysis>>

PlanFingering(k) ==
    \E sol \in {planFingering(piece[k].notes, piece[k].patterns)} :
        /\ solution' = [solution EXCEPT ![k] =
                [called |-> TRUE, fingering |-> sol.fingering,
                 totalCost |-> sol.totalCost, explanations |-> sol.explanations,
                 level |-> difficultyLevel, inForce |-> lastSet]]
        /\ UNCHANGED <<difficultyLevel, lastSet, piece, analysis>>

Next ==
    \/ \E level \in Levels : SetDifficultyLevel(level)
    \/ \E k \in DOMAIN piece : PlanFingering(k)

Spec == Init /\ [][Next]_vars

(***************************************************************************)
(* The analyzer on its own: hands drawn from stepwise runs and short hands *)
(***************************************************************************)
MaxStep == 2
ScaleRunLens == {7, 10}

RECURSIVE RunPitch(_, _, _)
\* pitch of the i-th (1-based) note of the run that starts at start
RunPitch(start, steps, i) ==
    IF i = 1 THEN start ELSE RunPitch(start, steps, i - 1) + steps[i - 1]

Run(start, steps, hand) ==
    [i \in 1..(Len(steps) + 1) |->
        Note(RunPitch(start, steps, i), hand, 1 + ((i - 1) \div 4))]

\* a four-note broken figure spanning a fourth
BrokenChordNotes ==
    [i \in 1..4 |-> Note(<<60, 64, 62, 65>>[i], "RH", 1)]

ScalePieces ==
    {[notes |-> Run(60, steps, hand), patterns |-> <<>>] :
        steps \in UNION {[1..(n - 1) -> 1..MaxStep] : n \in ScaleRunLens}, hand \in Hands}
    \cup {[notes |-> ns, patterns |-> <<>>] : ns \in ShortNotes \cup {BrokenChordNotes}}

InitScale ==
    /\ difficultyLevel = "intermediate"
    /\ lastSet = "intermediate"
    /\ piece \in {<<p>> : p \in ScalePieces}
    /\ solution = [k \in DOMAIN piece |-> NotCalled]
    /\ analysis = [k \in DOMAIN piece |-> NotAnalysed]

AnalyzeHandPositions(k, hand) ==
    /\ analysis' = [analysis EXCEPT ![k] =
            [done |-> TRUE, hand |-> hand,
             positions |-> analyzeHandPositions(Filter(piece[k].notes, hand), hand)]]
    /\ UNCHANGED <<difficultyLevel, lastSet, piece, solution>>

NextScale == \E k \in DOMAIN piece : \E hand \in Hands : AnalyzeHandPositions(k, hand)

SpecScale == InitScale /\ [][NextScale]_vars

(***************************************************************************)
(* Two inputs side by side: a two-note core of one hand, notes of the      *)
(* other hand put in around it, and a pattern list                         *)
(***************************************************************************)
MaxOther == 1

PairCores ==
    {<<Note(60, hand, 11), Note(p2, hand, 11)>> : p2 \in {64, 105}, hand \in Hands}

\* cnt[g] notes of the other hand go into gap g: before, between, after the core
PairNotes(core, cnt) ==
    LET other(g) == [j \in 1..cnt[g] |-> Note(48, OtherHand(core[1].hand), 13)]
    IN  other(0) \o <<core[1]>> \o other(1) \o <<core[2]>> \o other(2)

PairPatterns ==
    {<<>>,
     <<Segment(13, 13, "ORNAMENTED")>>,
     <<Segment(11, 13, "SCALE")>>,
     <<Segment(1, 1, "POLYPHONIC")>>,
     <<Segment(13, 13, "ORNAMENTED"), Segment(1, 1, "POLYPHONIC")>>}

PairPieces(core) ==
    {[notes |-> PairNotes(core, cnt), patterns |-> ps] :
        cnt \in {c \in [0..2 -> 0..MaxOther] : c[0] + c[1] + c[2] <= MaxOther},
        ps \in PairPatterns}

InitPair ==
    /\ difficultyLevel = "intermediate"
    /\ lastSet = "intermediate"
    /\ \E core \in PairCores : piece \in {<<a, b>> : a \in PairPieces(core), b \in PairPieces(core)}
    /\ solution = [k \in DOMAIN piece |-> NotCalled]
    /\ analysis = [k \in DOMAIN piece |-> NotAnalysed]

NextPair == \E k \in DOMAIN piece : PlanFingering(k)

SpecPair == InitPair /\ [][NextPair]_vars

(***************************************************************************)
(* The cost model on its own: one transition (two notes of a hand, a       *)
(* finger pair, a pattern context and a HandPosition) costed at the levels *)
(* the setter puts in force                                                *)
(***************************************************************************)
CostPitches == {61, 67}
CostPositions == {HandPos(60, TRUE, FALSE), HandPos(60, FALSE, FALSE), HandPos(60, FALSE, TRUE)}

CostInputs ==
    {[notes |-> <<Note(60, hand, 1), Note(p, hand, 1)>>, patterns |-> <<>>,
      prevFinger |-> from, currFinger |-> to, patternContext |-> ctx, pos |-> pos] :
        p \in CostPitches, hand \in Hands, from \in 1..5, to \in 1..5,
        ctx \in PatternTypes, pos \in CostPositions}

\* no cost computed yet; transition[l] and initial[l] are meaningful for the levels
\* l in seenTransition and seenInitial
NotCosted ==
    [called |-> FALSE, seenTransition |-> {}, seenInitial |-> {},
     transition |-> [l \in Levels |-> 0], initial |-> [l \in Levels |-> 0]]

InitCost ==
    /\ difficultyLevel = "intermediate"
    /\ lastSet = "intermediate"
    /\ piece \in {<<p>> : p \in CostInputs}
    /\ solution = [k \in DOMAIN piece |-> NotCosted]
    /\ analysis = [k \in DOMAIN piece |-> NotAnalysed]

ComputeTransitionCost(k) ==
    \E c \in {computeTransitionCost(piece[k].notes[1], piece[k].prevFinger,
                                    piece[k].notes[2], piece[k].currFinger,
                                    piece[k].patternContext, piece[k].notes[2].hand,
                                    piece[k].pos)} :
        /\ solution' = [solution EXCEPT
                ![k].called = TRUE,
                ![k].seenTransition = @ \cup {difficultyLevel},
                ![k].transition[difficultyLevel] = c.cost]
        /\ UNCHANGED <<difficultyLevel, lastSet, piece, analysis>>

ComputeInitialCost(k) ==
    \E c \in {computeInitialCost(piece[k].currFinger, piece[k].notes[2],
                                 piece[k].notes[2].hand, piece[k].pos)} :
        /\ solution' = [solution EXCEPT
                ![k].called = TRUE,
                ![k].seenInitial = @ \cup {difficultyLevel},
                ![k].initial[difficultyLevel] = c.cost]
        /\ UNCHANGED <<difficultyLevel, lastSet, piece, analysis>>

NextCost ==
    \/ \E level \in Levels : SetDifficultyLevel(level)
    \/ \E k \in DOMAIN piece : ComputeTransitionCost(k)
    \/ \E k \in DOMAIN piece : ComputeInitialCost(k)

SpecCost == InitCost /\ [][NextCost]_vars

(***************************************************************************)
(* The chunked optimizer on its own, next to the analyzer: the             *)
(* handPositions each window's DP run works with                           *)
(***************************************************************************)
\* line 96 in the dpOptimization run of every window (line 248): element c is the
\* handPositions array of window c, indexed by the window's own note indices
chunkHandPositions(notes, hand) ==
    LET chunks == Chunks(notes, 0)
    IN  [c \in 1..Len(chunks) |-> analyzeHandPositions(chunks[c], hand)]

NotChunked ==
    [called |-> FALSE, hand |-> "RH", handPositions |-> <<>>,
     fingering |-> <<>>, totalCost |-> 0, explanations |-> <<>>]

InitChunk ==
    /\ difficultyLevel = "intermediate"
    /\ lastSet = "intermediate"
    /\ piece \in {<<p>> : p \in LongPieces}
    /\ solution = [k \in DOMAIN piece |-> NotChunked]
    /\ analysis = [k \in DOMAIN piece |-> NotAnalysed]

\* planHandFingering takes this path for a hand of more than 64 notes (line 81)
ChunkedOptimization(k, hand) ==
    /\ Len(Filter(piece[k].notes, hand)) > MaxSingleDP
    /\ \E sol \in {chunkedOptimization(Filter(piece[k].notes, hand), piece[k].patterns, hand)} :
          solution' = [solution EXCEPT ![k] =
                [called |-> TRUE, hand |-> hand,
                 handPositions |-> chunkHandPositions(Filter(piece[k].notes, hand), hand),
                 fingering |-> sol.fingering, totalCost |-> sol.totalCost,
                 explanations |-> sol.explanations]]
    /\ UNCHANGED <<difficultyLevel, lastSet, piece, analysis>>

NextChunk ==
    \/ \E k \in DOMAIN piece : \E hand \in Hands : AnalyzeHandPositions(k, hand)
    \/ \E k \in DOMAIN piece : \E hand \in Hands : ChunkedOptimization(k, hand)

SpecChunk == InitChunk /\ [][NextChunk]_vars

(***************************************************************************)
(* Helpers of the properties                                               *)
(***************************************************************************)
Called(k) == solution[k].called
\* the solution of input k was planned at the level the planner holds now
Fresh(k) == solution[k].called /\ solution[k].level = difficultyLevel

\* the notes of input k that carry the hand tag, in input order
HandNotes(k, hand) == SelectSeq(piece[k].notes, LAMBDA n : n.hand = hand)

\* the entries of a merged output sequence that belong to the notes of hand
HandPart(out, notes, hand) ==
    LET at == SelectSeq([i \in 1..Len(notes) |-> i], LAMBDA i : notes[i].hand = hand)
    IN  [j \in 1..Len(at) |-> out[at[j]]]

(***************************************************************************)
(* C1  Length preservation: after every planFingering call, on any input   *)
(* (mixed hands, any pattern list, hands of more than 64 notes, inputs     *)
(* with unreachable DP rows), fingering and explanations both have exactly *)
(* as many entries as the input has notes.                                 *)
(***************************************************************************)
C1_LengthPreservation ==
    \A k \in DOMAIN piece :
        Called(k) =>
            /\ Len(solution[k].fingering) = Len(piece[k].notes)
            /\ Len(solution[k].explanations) = Len(piece[k].notes)

\* a planned input with both hands, one of them chunked, and an unreachable row
C1_Witness ==
    \E k \in DOMAIN piece :
        /\ Called(k)
        /\ \E hand \in Hands : /\ Len(HandNotes(k, hand)) > MaxSingleDP
                               /\ Len(HandNotes(k, OtherHand(hand))) > 0
        /\ solution[k].totalCost >= Infinity
        /\ Len(solution[k].fingering) = Len(piece[k].notes)

(***************************************************************************)
(* C2  Finger domain: every finger planFingering returns is in 1..5, also  *)
(* when DP cells or whole rows are unreachable and the default is used.    *)
(***************************************************************************)
C2_FingerDomain ==
    \A k \in DOMAIN piece :
        Called(k) =>
            \A i \in 1..Len(solution[k].fingering) : solution[k].fingering[i] \in 1..5

\* a planned input whose last DP row is empty, so that backtrack used the default
C2_Witness ==
    \E k \in DOMAIN piece :
        /\ Called(k)
        /\ Len(piece[k].notes) >= 2
        /\ solution[k].totalCost >= Infinity
        /\ \A i \in 1..Len(solution[k].fingering) : solution[k].fingering[i] \in 1..5

(***************************************************************************)
(* C3  Example scenario: for the right-hand notes 60,62,64,65,67,69,71,72, *)
(* 74,76 with no pattern segments, planned at the intermediate level, the  *)
(* first eight fingers are 1,2,3,1,2,3,4,5.                                *)
(***************************************************************************)
C3_CMajorTemplate ==
    \A k \in DOMAIN piece :
        (Called(k) /\ piece[k] = CMajorPiece /\ solution[k].level = "intermediate")
            => SubSeq(solution[k].fingering, 1, 8) = <<1, 2, 3, 1, 2, 3, 4, 5>>

(***************************************************************************)
(* C7  In any sequence of setDifficultyLevel and planFingering calls, an   *)
(* invocation reads, for all its cost scaling, the level passed to the     *)
(* latest preceding setDifficultyLevel call (intermediate if none), and    *)
(* the level stays in force until the setter is called again.  A call runs *)
(* to completion (PlanFingering is one step), so it reads one level only.  *)
(***************************************************************************)
C7_LevelInForce ==
    /\ difficultyLevel = lastSet
    /\ \A k \in DOMAIN piece : Called(k) => solution[k].level = solution[k].inForce

\* an invocation made under a level set earlier, followed by another setter call
C7_Witness ==
    \E k \in DOMAIN piece :
        /\ Called(k)
        /\ solution[k].inForce = "advanced"
        /\ solution[k].level = "advanced"
        /\ lastSet = "beginner"
        /\ Len(piece[k].notes) >= 2

(***************************************************************************)
(* C10  The totalCost planFingering returns is a finite number for every   *)
(* input.                                                                  *)
(***************************************************************************)
C10_FiniteTotalCost ==
    \A k \in DOMAIN piece : Called(k) => solution[k].totalCost < Infinity

(***************************************************************************)
(* C5  Chunking boundary and stitching: a hand of at most 64 notes gets    *)
(* the result of one DP over the whole hand; a hand of n > 64 notes is     *)
(* planned in windows of 32 notes starting at 0, 28, 56, ...: output       *)
(* entries 0..31 are the DP result on notes 0..31 alone, and every later   *)
(* entry j is the entry of window (j - 4) div 28 at local index            *)
(* j - 28 * window, past that window's first 4 entries; each of the n      *)
(* notes is covered by exactly one window entry.                           *)
(***************************************************************************)
\* the window (0-based) whose DP result supplies output entry j (0-based)
WindowOf(j) ==
    IF j < chunkSize THEN 0
    ELSE (j - overlapSize) \div (chunkSize - overlapSize)

C5_HandStitched(k, hand) ==
    LET hn == HandNotes(k, hand)
        n == Len(hn)
        stride == chunkSize - overlapSize
        hf == HandPart(solution[k].fingering, piece[k].notes, hand)
        he == HandPart(solution[k].explanations, piece[k].notes, hand)
    IN  /\ Len(hf) = n
        /\ (n >= 1 /\ n <= MaxSingleDP) =>
                \E sol \in {dpOptimization(hn, piece[k].patterns, hand)} :
                    hf = sol.fingering /\ he = sol.explanations
        /\ n > MaxSingleDP =>
                \A w \in 0..((n - 1) \div stride) :
                    \E sol \in {dpOptimization(
                                    SubSeq(hn, stride * w + 1, Min2(stride * w + chunkSize, n)),
                                    piece[k].patterns, hand)} :
                        \A j \in 0..(n - 1) :
                            WindowOf(j) = w =>
                                /\ j - stride * w >= (IF w = 0 THEN 0 ELSE overlapSize)
                                /\ j - stride * w < Len(sol.fingering)
                                /\ hf[j + 1] = sol.fingering[j - stride * w + 1]
                                /\ he[j + 1] = sol.explanations[j - stride * w + 1]

C5_ChunkStitching ==
    \A k \in DOMAIN piece : Fresh(k) => \A hand \in Hands : C5_HandStitched(k, hand)

\* a planned hand of 85 notes: four windows, the last one shorter than the overlap
C5_Witness ==
    \E k \in DOMAIN piece :
        /\ Fresh(k)
        /\ \E hand \in Hands :
              /\ Len(HandNotes(k, hand)) = 85
              /\ Len(HandPart(solution[k].fingering, piece[k].notes, hand)) = 85
              /\ Len(Chunks(HandNotes(k, hand), 0)) = 4

(***************************************************************************)
(* C8  DP optimality: for a single hand's sequence (here of at most        *)
(* MaxNotes notes) that has a finger sequence with every transition cost   *)
(* <= 300, the returned totalCost is the minimum, over all such finger     *)
(* sequences, of the initial cost plus the transition costs, and the       *)
(* returned fingering is such a sequence and attains it.                   *)
(***************************************************************************)
TransitionAt(notes, patterns, hand, hp, i, from, to) ==
    computeTransitionCost(notes[i], from, notes[i + 1], to,
                          getPatternContext(notes, i, patterns), hand, hp[i + 1]).cost

RECURSIVE PathCost(_, _, _, _, _, _)
\* initial cost of fs[1] plus the transition costs up to note i (1-based)
PathCost(notes, patterns, hand, hp, fs, i) ==
    IF i = 1 THEN computeInitialCost(fs[1], notes[1], hand, hp[1]).cost
    ELSE PathCost(notes, patterns, hand, hp, fs, i - 1)
         + TransitionAt(notes, patterns, hand, hp, i - 1, fs[i - 1], fs[i])

PathFeasible(notes, patterns, hand, hp, fs) ==
    \A i \in 1..(Len(notes) - 1) :
        TransitionAt(notes, patterns, hand, hp, i, fs[i], fs[i + 1]) <= PruneLimit * Tenths

SingleHand(k, hand) ==
    /\ Len(piece[k].notes) >= 1
    /\ Len(piece[k].notes) <= MaxNotes
    /\ \A i \in 1..Len(piece[k].notes) : piece[k].notes[i].hand = hand

C8_HandOptimal(k, hand) ==
    LET notes == piece[k].notes
        n == Len(notes)
        hp == analyzeHandPositions(notes, hand)
        feasible == {fs \in [1..n -> 1..5] :
                        PathFeasible(notes, piece[k].patterns, hand, hp, fs)}
        costs == {PathCost(notes, piece[k].patterns, hand, hp, fs, n) : fs \in feasible}
    IN  feasible # {} =>
            /\ solution[k].totalCost \in costs
            /\ \A c \in costs : solution[k].totalCost <= c
            /\ PathFeasible(notes, piece[k].patterns, hand, hp, solution[k].fingering)
            /\ PathCost(notes, piece[k].patterns, hand, hp, solution[k].fingering, n)
               = solution[k].totalCost

C8_DPOptimal ==
    \A k \in DOMAIN piece : \A hand \in Hands :
        (Fresh(k) /\ SingleHand(k, hand)) => C8_HandOptimal(k, hand)

\* a planned three-note hand in which some edges are pruned, some rows' cells
\* survive, and the level is not the default
C8_Witness ==
    \E k \in DOMAIN piece : \E hand \in Hands :
        /\ Fresh(k) /\ SingleHand(k, hand)
        /\ Len(piece[k].notes) = 3
        /\ difficultyLevel = "beginner"
        /\ solution[k].totalCost < Infinity
        /\ LET hp == analyzeHandPositions(piece[k].notes, hand)
           IN  \E fs \in [1..3 -> 1..5] :
                  ~PathFeasible(piece[k].notes, piece[k].patterns, hand, hp, fs)

(***************************************************************************)
(* C9  Degenerate DP row.  As claimed: if every one of the 25 edges into   *)
(* note i > 0 of a hand's sequence is pruned, the planner returns and      *)
(* every note of that hand at index >= i has finger 3 and an empty         *)
(* explanation.                                                            *)
(***************************************************************************)
\* all 25 edges into the note at 0-based index i of one DP run over notes are pruned
EdgesPruned(notes, patterns, hand, hp, i) ==
    \A from \in 1..5 : \A to \in 1..5 :
        TransitionAt(notes, patterns, hand, hp, i, from, to) > PruneLimit * Tenths

\* the notes of window w (0-based) of a chunked hand
Window(hn, w) ==
    SubSeq(hn, (chunkSize - overlapSize) * w + 1,
           Min2((chunkSize - overlapSize) * w + chunkSize, Len(hn)))

\* the DP runs that cost the edges into the hand's note i (0-based, i > 0) all prune them
RowPruned(hn, patterns, hand, i) ==
    IF Len(hn) <= MaxSingleDP
    THEN EdgesPruned(hn, patterns, hand, analyzeHandPositions(hn, hand), i)
    ELSE \A w \in 0..((Len(hn) - 1) \div (chunkSize - overlapSize)) :
            LET local == i - (chunkSize - overlapSize) * w
            IN  (local >= 1 /\ local < chunkSize) =>
                    EdgesPruned(Window(hn, w), patterns, hand,
                                analyzeHandPositions(Window(hn, w), hand), local)

C9_DefaultAfterEmptyRow ==
    \A k \in DOMAIN piece : \A hand \in Hands :
        Fresh(k) =>
            LET hn == HandNotes(k, hand)
                hf == HandPart(solution[k].fingering, piece[k].notes, hand)
                he == HandPart(solution[k].explanations, piece[k].notes, hand)
            IN  \A i \in 1..(Len(hn) - 1) :
                    RowPruned(hn, piece[k].patterns, hand, i) =>
                        \A j \in i..(Len(hn) - 1) : hf[j + 1] = 3 /\ he[j + 1] = <<>>

(***************************************************************************)
(* C9 as amended: within one DP run.  If all 25 edges into the note at     *)
(* index i > 0 of a DP run are pruned, every output entry taken from that  *)
(* run at index >= i is finger 3 with an empty explanation.  The run is    *)
(* the whole hand when it has at most 64 notes; for a longer hand it is    *)
(* one 32-note window, and entries supplied by later windows are planned   *)
(* afresh.                                                                 *)
(***************************************************************************)
C9_RunDefault(k, hand) ==
    LET hn == HandNotes(k, hand)
        n == Len(hn)
        stride == chunkSize - overlapSize
        hf == HandPart(solution[k].fingering, piece[k].notes, hand)
        he == HandPart(solution[k].explanations, piece[k].notes, hand)
    IN  IF n <= MaxSingleDP
        THEN \E hp \in {analyzeHandPositions(hn, hand)} :
                \A i \in 1..(n - 1) :
                    EdgesPruned(hn, piece[k].patterns, hand, hp, i) =>
                        \A j \in i..(n - 1) : hf[j + 1] = 3 /\ he[j + 1] = <<>>
        ELSE \A w \in 0..((n - 1) \div stride) :
                \E win \in {Window(hn, w)} :
                \E hp \in {analyzeHandPositions(win, hand)} :
                    \A i \in 1..(Len(win) - 1) :
                        EdgesPruned(win, piece[k].patterns, hand, hp, i) =>
                            \A j \in 0..(n - 1) :
                                (WindowOf(j) = w /\ j - stride * w >= i) =>
                                    hf[j + 1] = 3 /\ he[j + 1] = <<>>

C9_DefaultWithinRun ==
    \A k \in DOMAIN piece : \A hand \in Hands : Fresh(k) => C9_RunDefault(k, hand)

\* a planned hand of 64 notes whose row 10 is empty, with 54 defaulted notes, and
\* reachable rows before it that did not all end on finger 3
C9_Witness ==
    \E k \in DOMAIN piece : \E hand \in Hands :
        /\ Fresh(k)
        /\ Len(HandNotes(k, hand)) = MaxSingleDP
        /\ RowPruned(HandNotes(k, hand), piece[k].patterns, hand, 10)
        /\ LET hf == HandPart(solution[k].fingering, piece[k].notes, hand)
           IN  /\ \A j \in 10..(MaxSingleDP - 1) : hf[j + 1] = 3
               /\ \E j \in 0..9 : hf[j + 1] # 3

(***************************************************************************)
(* C6  Scale detection: every strictly ascending hand of 10 or more notes  *)
(* whose consecutive intervals are all 1 or 2 semitones and whose range    *)
(* exceeds 12 semitones gets {anchorPitch = first pitch, inPosition =      *)
(* false, isScale = true} on every note; every hand of fewer than 8 notes  *)
(* gets isScale = false on every note.                                     *)
(***************************************************************************)
StepwiseAscending(hn) ==
    \A i \in 1..(Len(hn) - 1) : hn[i + 1].pitch - hn[i].pitch \in {1, 2}

C6_ScaleDetection ==
    \A k \in DOMAIN piece :
        analysis[k].done =>
            LET hn == HandNotes(k, analysis[k].hand)
                pos == analysis[k].positions
            IN  /\ Len(pos) = Len(hn)
                /\ (/\ Len(hn) >= 10
                    /\ StepwiseAscending(hn)
                    /\ hn[Len(hn)].pitch - hn[1].pitch > 12)
                        => \A i \in 1..Len(hn) : pos[i] = HandPos(hn[1].pitch, FALSE, TRUE)
                /\ Len(hn) < 8 => \A i \in 1..Len(hn) : pos[i].isScale = FALSE

\* an analysed ten-note stepwise ascending run of range above 12, flagged as a scale
C6_Witness ==
    \E k \in DOMAIN piece :
        /\ analysis[k].done
        /\ LET hn == HandNotes(k, analysis[k].hand)
           IN  /\ Len(hn) = 10
               /\ StepwiseAscending(hn)
               /\ hn[10].pitch - hn[1].pitch > 12
               /\ \A i \in 1..10 : analysis[k].positions[i].isScale

(***************************************************************************)
(* C4  Hand independence.  As claimed: two inputs with the same notes of   *)
(* one hand (pitch, measure, order) that differ only in the notes of the   *)
(* other hand or in pattern segments that apply to notes of the other hand *)
(* get identical fingers and explanations for the notes of the first hand. *)
(***************************************************************************)
\* the segment's bounds contain the measure number or the hand-local index of
\* some note of the hand's sequence hn
AppliesTo(seg, hn) ==
    \E i \in 1..Len(hn) :
        \/ hn[i].measureNumber >= seg.startIndex /\ hn[i].measureNumber <= seg.endIndex
        \/ i - 1 >= seg.startIndex /\ i - 1 <= seg.endIndex

SameHandOutput(hand) ==
    /\ HandPart(solution[1].fingering, piece[1].notes, hand)
       = HandPart(solution[2].fingering, piece[2].notes, hand)
    /\ HandPart(solution[1].explanations, piece[1].notes, hand)
       = HandPart(solution[2].explanations, piece[2].notes, hand)

BothPlanned ==
    /\ Len(piece) = 2
    /\ Called(1) /\ Called(2)
    /\ solution[1].level = solution[2].level

\* the pattern lists agree once the segments applying to the other hand's notes are dropped
DifferOnlyOnOther(hand) ==
    SelectSeq(piece[1].patterns,
              LAMBDA seg : ~AppliesTo(seg, HandNotes(1, OtherHand(hand))))
    = SelectSeq(piece[2].patterns,
              LAMBDA seg : ~AppliesTo(seg, HandNotes(2, OtherHand(hand))))

C4_HandIndependenceAsClaimed ==
    \A hand \in Hands :
        (BothPlanned /\ HandNotes(1, hand) = HandNotes(2, hand) /\ DifferOnlyOnOther(hand))
            => SameHandOutput(hand)

(***************************************************************************)
(* C4 as amended: the pattern lists may differ only in segments that apply *)
(* to no note of the first hand, that is, whose bounds contain neither the *)
(* measure number nor the hand-local index of any of its notes.  The       *)
(* pattern list is shared by both hands, so a segment that applies to a    *)
(* note of the other hand may apply to this hand's notes too.              *)
(***************************************************************************)
SameRelevantSegments(hand) ==
    SelectSeq(piece[1].patterns, LAMBDA seg : AppliesTo(seg, HandNotes(1, hand)))
    = SelectSeq(piece[2].patterns, LAMBDA seg : AppliesTo(seg, HandNotes(2, hand)))

C4_HandIndependence ==
    \A hand \in Hands :
        (BothPlanned /\ HandNotes(1, hand) = HandNotes(2, hand) /\ SameRelevantSegments(hand))
            => SameHandOutput(hand)

\* two planned inputs with the same right hand, different left hands and pattern
\* lists that differ in a segment applying to the left hand only
C4_Witness ==
    /\ BothPlanned
    /\ HandNotes(1, "RH") = HandNotes(2, "RH")
    /\ Len(HandNotes(1, "RH")) = 2
    /\ HandNotes(1, "LH") # HandNotes(2, "LH")
    /\ piece[1].patterns # piece[2].patterns
    /\ SameRelevantSegments("RH")
    /\ SameHandOutput("RH")

(***************************************************************************)
(* C11  The difficulty multiplier is applied exactly once to every         *)
(* transition cost and never to the initial cost: for every transition,    *)
(* scale mode included, the beginner cost is 1.3 times the intermediate    *)
(* cost under a POLYPHONIC or ORNAMENTED context and 1.1 times it          *)
(* otherwise, the advanced cost is 0.9 times the intermediate cost, and    *)
(* computeInitialCost returns the same value at all three levels.  Costs   *)
(* are in tenths, so the factors are compared after multiplying by 10.     *)
(***************************************************************************)
BeginnerFactor(patternContext) ==
    IF patternContext = "POLYPHONIC" \/ patternContext = "ORNAMENTED" THEN 13 ELSE 11

C11_TransitionScaled(k) ==
    LET r == solution[k]
    IN  /\ {"beginner", "intermediate"} \subseteq r.seenTransition =>
              Tenths * r.transition["beginner"]
              = BeginnerFactor(piece[k].patternContext) * r.transition["intermediate"]
        /\ {"advanced", "intermediate"} \subseteq r.seenTransition =>
              Tenths * r.transition["advanced"] = 9 * r.transition["intermediate"]

C11_InitialUnscaled(k) ==
    \A a \in solution[k].seenInitial : \A b \in solution[k].seenInitial :
        solution[k].initial[a] = solution[k].initial[b]

C11_MultiplierOnce ==
    \A k \in DOMAIN piece : C11_TransitionScaled(k) /\ C11_InitialUnscaled(k)

(***************************************************************************)
(* C12  HandPosition is computed once over a hand's whole sequence: for a  *)
(* hand of more than 64 notes planned by the chunked optimizer, the        *)
(* HandPosition with which a note's transitions are costed, in whichever   *)
(* window covers the note, is the HandPosition analyzeHandPositions gives  *)
(* that note on the entire hand sequence.                                  *)
(***************************************************************************)
C12_WholeHandPositions ==
    \A k \in DOMAIN piece :
        (solution[k].called /\ analysis[k].done /\ analysis[k].hand = solution[k].hand) =>
            \A c \in 1..Len(solution[k].handPositions) :
                \A l \in 1..Len(solution[k].handPositions[c]) :
                    solution[k].handPositions[c][l]
                    = analysis[k].positions[(chunkSize - overlapSize) * (c - 1) + l]

====
